---- MODULE Spec2Model ----
(***************************************************************************)
(* vineyard-ctl (python/vineyard/cli.py): connection resolution, the       *)
(* four-line config file, command dispatch and the command handlers.       *)
(*                                                                         *)
(* Text is a sequence of characters.  The literal prefixes the code writes *)
(* ("ipc_socket", "rpc_host", ...) are single elements: they contain       *)
(* neither ':' nor a line break, so split(':') and readlines() never cut   *)
(* inside them.  An optional value (None or v) is <<>> or <<v>>.           *)
(***************************************************************************)
EXTENDS Integers, Sequences, FiniteSets, TLC

VARIABLES
    file,        \* content of ~/.vineyard/config
    fileExists,  \* whether ~/.vineyard/config exists
    pc,          \* pc[p]: position of invocation p in main()
    args,        \* args[p]: the options record parse_args() returned
    runs,        \* runs[p]: invocations started by p so far
    sockets,     \* sockets[p]: the list config() read with readlines()
    connects,    \* connects[p]: vineyard.connect calls made, in order
    sessions,    \* sessions[p]: how many of them returned a client
    handlers,    \* handlers[p]: the handlers main() called, in order
    ops,         \* ops[p]: store operations called on the client, in order
    out,         \* out[p]: outputs made (stdout prints, output file), in order
    err,         \* err[p]: what was printed to sys.stderr, in order
    exitCode,    \* exitCode[p]: exit status once pc[p] = "done"
    exc,         \* exc[p]: the exception that left main(), if any
    fileLog      \* accesses to ~/.vineyard/config, in order: <<p, "read">>,
                 \* <<p, "open_w">> (open for writing), <<p, "write">>

vars == <<file, fileExists, pc, args, runs, sockets, connects, sessions,
          handlers, ops, out, err, exitCode, exc, fileLog>>

\* ------------------------------------------------------------------ bounds
NProcs == 2
MaxRuns == 2

Procs == 1..NProcs

\* ------------------------------------------------------------- characters
COLON == ":"
NL == "\n"
Keys == <<"ipc_socket", "rpc_host", "rpc_port", "rpc_endpoint">>

DigitValue ==
    [c \in {"0", "1", "2", "3", "4", "5", "6", "7", "8", "9"} |->
        CASE c = "0" -> 0 [] c = "1" -> 1 [] c = "2" -> 2 [] c = "3" -> 3
          [] c = "4" -> 4 [] c = "5" -> 5 [] c = "6" -> 6 [] c = "7" -> 7
          [] c = "8" -> 8 [] c = "9" -> 9]

\* Values a command-line option or an initial config field can hold.
Values == { <<>>, <<"h">>, <<"7">>, <<"h", COLON, "7">>, <<"h", NL, "7">> }
InitValues == { <<>>, <<"h">> }

None == <<>>
Some(v) == <<v>>
Opt(S) == {None} \cup {Some(v) : v \in S}

\* -------------------------------------------------------- str operations
\* s[:-1]
DropLast(s) == IF s = <<>> THEN <<>> ELSE SubSeq(s, 1, Len(s) - 1)

\* s.split(sep): the pieces between separators, never an empty list
RECURSIVE split(_, _)
split(s, sep) ==
    LET at == {i \in 1..Len(s) : s[i] = sep} IN
    IF at = {} THEN <<s>>
    ELSE LET i == CHOOSE k \in at : \A j \in at : k <= j
         IN  <<SubSeq(s, 1, i - 1)>> \o split(SubSeq(s, i + 1, Len(s)), sep)

\* file.readlines(): lines keep their line break; the last may have none
RECURSIVE readlines(_)
readlines(s) ==
    IF s = <<>> THEN <<>>
    ELSE LET at  == {i \in 1..Len(s) : s[i] = NL}
             cut == IF at = {} THEN Len(s)
                    ELSE CHOOSE k \in at : \A j \in at : k <= j
         IN  <<SubSeq(s, 1, cut)>> \o readlines(SubSeq(s, cut + 1, Len(s)))

\* file.writelines(lines): the lines one after the other, nothing added
RECURSIVE writelines(_)
writelines(lines) ==
    IF lines = <<>> THEN <<>> ELSE Head(lines) \o writelines(Tail(lines))

\* s.strip() for the white space of this alphabet
RECURSIVE strip(_)
strip(s) ==
    IF s = <<>> THEN s
    ELSE IF Head(s) = NL THEN strip(Tail(s))
    ELSE IF s[Len(s)] = NL THEN strip(DropLast(s))
    ELSE s

RECURSIVE DecimalValue(_)
DecimalValue(s) ==
    IF s = <<>> THEN 0 ELSE 10 * DecimalValue(DropLast(s)) + DigitValue[s[Len(s)]]

\* int(s): Some(n), or None where int() raises ValueError
int(s) ==
    LET t == strip(s) IN
    IF t # <<>> /\ \A i \in 1..Len(t) : t[i] \in DOMAIN DigitValue
    THEN Some(DecimalValue(t)) ELSE None

\* ------------------------------------------------------------ config file
\* f'{key}:{value}\n' and, for the last line, f'{key}:{value}'
Line(i, value) ==
    <<Keys[i], COLON>> \o value \o (IF i < 4 THEN <<NL>> ELSE <<>>)

FileOf(v) == writelines([i \in 1..4 |-> Line(i, v[i])])

\* the four-line files an operator starts from
InitFiles == { FileOf(v) : v \in [1..4 -> InitValues] }

\* the --*_value options of the config subcommand, in line order
PatchOf(a) ==
    <<a.ipc_socket_value, a.rpc_host_value, a.rpc_port_value, a.rpc_endpoint_value>>

\* lines 270-277: sockets[i] = ... for each option that is not None;
\* raises IndexError at the first option whose line does not exist
PatchRaises(lines, patch) == \E i \in 1..4 : patch[i] # None /\ i > Len(lines)

\* mutant: the rpc_host option assigned to sockets[0] instead of sockets[1]
PatchLinesHostAtZero(lines, patch) ==
    [i \in 1..Len(lines) |->
        IF i = 1 /\ patch[2] # None THEN Line(2, patch[2][1])
        ELSE IF i <= 4 /\ i # 2 /\ patch[i] # None THEN Line(i, patch[i][1])
        ELSE lines[i]]

PatchLines(lines, patch) ==
    [i \in 1..Len(lines) |->
        IF i <= 4 /\ patch[i] # None THEN Line(i, patch[i][1]) ELSE lines[i]]

NoExc == [kind |-> "none", op |-> "", subject |-> <<>>]
Raised(kind, op, subject) == [kind |-> kind, op |-> op, subject |-> subject]

\* config(args) as one step: what it leaves in the file and what it raises
config(content, exists, a) ==
    IF ~exists
    THEN [file |-> content, exc |-> Raised("FileNotFoundError", "open", <<"config">>)]
    ELSE LET lines == readlines(content) IN
         IF PatchRaises(lines, PatchOf(a))
         THEN \* the file was opened with 'w' before the assignments
              [file |-> <<>>, exc |-> Raised("IndexError", "config", <<"sockets">>)]
         ELSE [file |-> writelines(PatchLines(lines, PatchOf(a))), exc |-> NoExc]

\* lines 153-164 of connect_via_config_file: the parsed fields, or the
\* wrapped "not present or not formatted correctly" error
Field(lines, i) ==
    IF i > Len(lines) \/ Len(split(lines[i], COLON)) < 2 THEN None
    ELSE Some(DropLast(split(lines[i], COLON)[2]))

load(content, exists) ==
    LET lines == readlines(content)
        f     == [i \in 1..4 |-> Field(lines, i)]
        port  == IF f[3] = None THEN None ELSE int(f[3][1])
    IN  IF ~exists \/ f[1] = None \/ f[2] = None \/ f[4] = None
        THEN [ok |-> FALSE, ipc_socket |-> <<>>, rpc_host |-> <<>>,
              rpc_port |-> None, rpc_endpoint |-> <<>>]
        ELSE [ok |-> TRUE, ipc_socket |-> f[1][1], rpc_host |-> f[2][1],
              rpc_port |-> port, rpc_endpoint |-> f[4][1]]

\* ------------------------------------------------------------ command line
Subcommands == {"ls", "query", "del", "stat", "put", "config"}

NoArgs ==
    [cmd |-> "none",
     ipc_socket |-> None, rpc_host |-> None, rpc_port |-> None, rpc_endpoint |-> None,
     object_id |-> None, exists |-> FALSE, stdout |-> FALSE, output_file |-> FALSE,
     meta |-> "none", metric |-> FALSE, properties |-> FALSE,
     value |-> None, csv |-> None,
     ipc_socket_value |-> None, rpc_host_value |-> None,
     rpc_port_value |-> None, rpc_endpoint_value |-> None]

\* the global connection flags (lines 37-40); --rpc_port has type=int
WithFlags(S) ==
    { [a EXCEPT !.ipc_socket = f[1], !.rpc_host = f[2], !.rpc_port = f[3],
                !.rpc_endpoint = f[4]] :
        a \in S,
        f \in Opt({<<"s">>}) \X Opt({<<"g">>}) \X Opt({6}) \X Opt({<<"e", COLON, "8">>}) }

ObjectIds == { <<"7">>, <<"h">> }

QueryArgs ==
    { [NoArgs EXCEPT !.cmd = "query", !.object_id = Some(o[1]), !.exists = o[2],
                     !.stdout = o[3], !.output_file = o[4], !.meta = o[5],
                     !.metric = o[6]] :
        o \in ObjectIds \X BOOLEAN \X BOOLEAN \X BOOLEAN
                \X {"none", "simple", "json"} \X BOOLEAN }

StoreArgs ==
    { [NoArgs EXCEPT !.cmd = "ls"] }
    \cup QueryArgs
    \cup { [NoArgs EXCEPT !.cmd = "del", !.object_id = Some(o)] : o \in ObjectIds }
    \cup { [NoArgs EXCEPT !.cmd = "stat", !.properties = b] : b \in BOOLEAN }
    \cup { [NoArgs EXCEPT !.cmd = "put", !.value = Some(<<"h">>)],
           [NoArgs EXCEPT !.cmd = "put", !.csv = Some(<<"h">>)] }

\* the config subcommand with any subset of its four options, given value v
ConfigArgs(V) ==
    { [NoArgs EXCEPT !.cmd = "config",
                     !.ipc_socket_value = IF 1 \in S THEN Some(v) ELSE None,
                     !.rpc_host_value = IF 2 \in S THEN Some(v) ELSE None,
                     !.rpc_port_value = IF 3 \in S THEN Some(v) ELSE None,
                     !.rpc_endpoint_value = IF 4 \in S THEN Some(v) ELSE None] :
        S \in SUBSET (1..4), v \in V }

\* command lines of a store subcommand, of no subcommand, of an unknown one
MainArgv ==
    WithFlags(StoreArgs \cup {NoArgs, [NoArgs EXCEPT !.cmd = "bogus"]})

\* ------------------------------------------------------------- invocation
\* exit_with_help(): print_help(sys.stderr); sys.exit(-1)
exit_with_help(p) ==
    /\ err' = [err EXCEPT ![p] = Append(@, "help")]
    /\ exitCode' = [exitCode EXCEPT ![p] = -1]
    /\ pc' = [pc EXCEPT ![p] = "done"]

\* an exception leaves main(): traceback, exit status 1
Propagate(p, e) ==
    /\ exc' = [exc EXCEPT ![p] = e]
    /\ exitCode' = [exitCode EXCEPT ![p] = 1]
    /\ pc' = [pc EXCEPT ![p] = "done"]

\* main() returns
Return(p) ==
    /\ exitCode' = [exitCode EXCEPT ![p] = 0]
    /\ pc' = [pc EXCEPT ![p] = "done"]

\* line 283, optparser.parse_args(): a subcommand that is no choice of the
\* subparsers (line 42) is an argparse error: usage on stderr, exit status 2
parse_args(p, Argv) ==
    /\ pc[p] \in {"start", "done"}
    /\ runs[p] < MaxRuns
    /\ runs' = [runs EXCEPT ![p] = @ + 1]
    /\ \E argv \in Argv :
         /\ args' = [args EXCEPT ![p] = argv]
         /\ IF argv.cmd \in Subcommands \cup {"none"}
            THEN /\ pc' = [pc EXCEPT ![p] = "main"]
                 /\ err' = [err EXCEPT ![p] = <<>>]
                 /\ exitCode' = [exitCode EXCEPT ![p] = 0]
            ELSE /\ pc' = [pc EXCEPT ![p] = "done"]
                 /\ err' = [err EXCEPT ![p] = <<"usage">>]
                 /\ exitCode' = [exitCode EXCEPT ![p] = 2]
    /\ sockets' = [sockets EXCEPT ![p] = <<>>]
    /\ connects' = [connects EXCEPT ![p] = <<>>]
    /\ sessions' = [sessions EXCEPT ![p] = 0]
    /\ handlers' = [handlers EXCEPT ![p] = <<>>]
    /\ ops' = [ops EXCEPT ![p] = <<>>]
    /\ out' = [out EXCEPT ![p] = <<>>]
    /\ exc' = [exc EXCEPT ![p] = NoExc]
    /\ UNCHANGED <<file, fileExists, fileLog>>

\* lines 284-285
main_no_cmd(p) ==
    /\ pc[p] = "main"
    /\ args[p].cmd = "none"
    /\ exit_with_help(p)
    /\ UNCHANGED <<file, fileExists, args, runs, sockets, connects, sessions,
                   handlers, ops, out, exc, fileLog>>

\* lines 287-288 with config() run to its end
main_config(p) ==
    /\ pc[p] = "main"
    /\ args[p].cmd = "config"
    /\ LET r == config(file, fileExists, args[p]) IN
         /\ file' = r.file
         /\ sockets' = [sockets EXCEPT ![p] = IF fileExists THEN readlines(file) ELSE <<>>]
         /\ fileLog' = fileLog \o (IF fileExists
                                    THEN <<<<p, "read">>, <<p, "open_w">>, <<p, "write">>>>
                                    ELSE <<<<p, "read">>>>)
         /\ IF r.exc = NoExc
            THEN Return(p) /\ UNCHANGED exc
            ELSE Propagate(p, r.exc)
    /\ handlers' = [handlers EXCEPT ![p] = Append(@, "config")]
    /\ UNCHANGED <<fileExists, args, runs, connects, sessions, ops, out, err>>

\* ---------------------------------------- config() step by step (no lock)
\* lines 267-268: open for reading, readlines(), close
config_read(p) ==
    /\ pc[p] = "main"
    /\ args[p].cmd = "config"
    /\ handlers' = [handlers EXCEPT ![p] = Append(@, "config")]
    /\ fileLog' = Append(fileLog, <<p, "read">>)
    /\ IF fileExists
       THEN /\ sockets' = [sockets EXCEPT ![p] = readlines(file)]
            /\ pc' = [pc EXCEPT ![p] = "config_269"]
            /\ UNCHANGED <<exc, exitCode>>
       ELSE /\ Propagate(p, Raised("FileNotFoundError", "open", <<"config">>))
            /\ UNCHANGED sockets
    /\ UNCHANGED <<file, fileExists, args, runs, connects, sessions, ops, out, err>>

\* line 269: open(..., 'w') truncates the file
config_open(p) ==
    /\ pc[p] = "config_269"
    /\ file' = <<>>
    /\ fileLog' = Append(fileLog, <<p, "open_w">>)
    /\ pc' = [pc EXCEPT ![p] = "config_270"]
    /\ UNCHANGED <<fileExists, args, runs, sockets, connects, sessions, handlers,
                   ops, out, err, exitCode, exc>>

\* what a write of `text` at offset 0 leaves in a file holding `content`
WriteAt0(content, text) ==
    text \o SubSeq(content, Len(text) + 1, Len(content))

\* lines 270-278: the assignments, writelines(), close
config_write(p) ==
    /\ pc[p] = "config_270"
    /\ fileLog' = Append(fileLog, <<p, "write">>)
    /\ IF PatchRaises(sockets[p], PatchOf(args[p]))
       THEN /\ Propagate(p, Raised("IndexError", "config", <<"sockets">>))
            /\ UNCHANGED file
       ELSE /\ file' = WriteAt0(file, writelines(PatchLines(sockets[p], PatchOf(args[p]))))
            /\ Return(p)
            /\ UNCHANGED exc
    /\ UNCHANGED <<fileExists, args, runs, sockets, connects, sessions, handlers,
                   ops, out, err>>

\* -------------------------------------------------------------- connection
Str(s) == [isnum |-> FALSE, num |-> 0, str |-> s]
Num(n) == [isnum |-> TRUE, num |-> n, str |-> <<>>]

\* vineyard.connect(*parts)
StrArgs(parts) == [i \in 1..Len(parts) |-> Str(parts[i])]

\* client.rpc_endpoint of the client an IPC connection returns
ServerEndpoint == <<"r", COLON, "9">>

\* lines 138-140 and 166-168: connect on the socket, then on its RPC endpoint
IpcCalls(path) == << <<Str(path)>>, StrArgs(split(ServerEndpoint, COLON)) >>

\* mutant: main() without the args.cmd is None test of lines 284-285
StoreCmdUnchecked(p) == pc[p] = "main" /\ args[p].cmd # "config"

\* main() reaches line 290: a subcommand was given and it is not config
StoreCmd(p) == pc[p] = "main" /\ args[p].cmd \in Subcommands \ {"config"}

\* the vineyard.connect calls of `calls` in order; any of them may raise
Connect(p, calls) ==
    \E k \in 0..Len(calls) :
        /\ sessions' = [sessions EXCEPT ![p] = k]
        /\ IF k = Len(calls)
           THEN /\ connects' = [connects EXCEPT ![p] = calls]
                /\ pc' = [pc EXCEPT ![p] = "handler"]
                /\ UNCHANGED <<exc, exitCode>>
           ELSE /\ connects' = [connects EXCEPT ![p] = SubSeq(calls, 1, k + 1)]
                /\ Propagate(p, Raised("ConnectionError", "connect", <<>>))

UsesConfigFile(a) ==
    /\ a.ipc_socket = None
    /\ a.rpc_endpoint = None
    /\ ~(a.rpc_host # None /\ a.rpc_port # None)

\* mutant: the RPC endpoint flag tested before the IPC socket flag
FlagCallsEndpointFirst(a) ==
    IF a.rpc_endpoint # None THEN <<StrArgs(split(a.rpc_endpoint[1], COLON))>>
    ELSE IF a.ipc_socket # None THEN IpcCalls(a.ipc_socket[1])
    ELSE << <<Str(a.rpc_host[1]), Num(a.rpc_port[1])>> >>

\* mutant: the RPC endpoint flag followed by a reconnect, as for a socket
FlagCallsReconnect(a) ==
    IF a.ipc_socket # None THEN IpcCalls(a.ipc_socket[1])
    ELSE IF a.rpc_endpoint # None
         THEN << StrArgs(split(a.rpc_endpoint[1], COLON)),
                 StrArgs(split(ServerEndpoint, COLON)) >>
    ELSE << <<Str(a.rpc_host[1]), Num(a.rpc_port[1])>> >>

\* lines 137-144: the vineyard.connect calls the flags lead to
FlagCalls(a) ==
    IF a.ipc_socket # None THEN IpcCalls(a.ipc_socket[1])
    ELSE IF a.rpc_endpoint # None THEN <<StrArgs(split(a.rpc_endpoint[1], COLON))>>
    ELSE << <<Str(a.rpc_host[1]), Num(a.rpc_port[1])>> >>

\* line 290 and connect_vineyard, lines 137-144: the command-line flags
connect_vineyard(p) ==
    /\ StoreCmd(p)
    /\ ~UsesConfigFile(args[p])
    /\ Connect(p, FlagCalls(args[p]))
    /\ UNCHANGED <<file, fileExists, args, runs, sockets, handlers, ops, out, err,
                   fileLog>>

\* lines 145-146 and connect_via_config_file
connect_via_config_file(p) ==
    /\ StoreCmd(p)
    /\ UsesConfigFile(args[p])
    /\ fileLog' = Append(fileLog, <<p, "read">>)
    /\ LET c == load(file, fileExists) IN
         IF ~c.ok
         THEN /\ Propagate(p, Raised("Exception", "config file", <<>>))
              /\ UNCHANGED <<connects, sessions, err>>
         ELSE IF c.ipc_socket # <<>>
         THEN Connect(p, IpcCalls(c.ipc_socket)) /\ UNCHANGED err
         ELSE IF c.rpc_endpoint # <<>>
         THEN Connect(p, <<StrArgs(split(c.rpc_endpoint, COLON))>>) /\ UNCHANGED err
         ELSE IF c.rpc_host # <<>> /\ c.rpc_port # None /\ c.rpc_port[1] # 0
         THEN Connect(p, << <<Str(c.rpc_host), Num(c.rpc_port[1])>> >>) /\ UNCHANGED err
         ELSE exit_with_help(p) /\ UNCHANGED <<connects, sessions, exc>>
    /\ UNCHANGED <<file, fileExists, args, runs, sockets, handlers, ops, out>>

\* ---------------------------------------------------------------- handlers
\* as_object_id: int(object_id), or ObjectID.wrap(object_id) on ValueError
as_object_id(object_id) ==
    IF int(object_id) # None THEN Num(int(object_id)[1]) ELSE Str(object_id)

\* lines 292-301: main() calls the handler of args.cmd
Handler(p, cmd) ==
    /\ pc[p] = "handler"
    /\ args[p].cmd = cmd
    /\ handlers' = [handlers EXCEPT ![p] = Append(@, cmd)]

HandlerFrame == <<file, fileExists, args, runs, sockets, connects, sessions, err, fileLog>>

Wrapped(op, subject) == Raised("Exception", op, subject)

\* lines 187-193
list_obj(p) ==
    /\ Handler(p, "ls")
    /\ ops' = [ops EXCEPT ![p] = Append(@, <<"list_objects">>)]
    /\ \/ /\ out' = [out EXCEPT ![p] = Append(@, "objects")]
          /\ Return(p)
          /\ UNCHANGED exc
       \/ /\ Propagate(p, Wrapped("listing", <<"objects">>))
          /\ UNCHANGED out
    /\ UNCHANGED HandlerFrame

\* lines 207-221: the outputs after a successful fetch
QueryOutputs(a) ==
    (IF a.exists THEN <<"exists">> ELSE <<>>)
    \o (IF a.stdout THEN <<"stdout_copy">> ELSE <<>>)
    \o (IF a.output_file THEN <<"output_file">> ELSE <<>>)
    \o (IF a.meta = "simple" THEN <<"meta_simple">>
        ELSE IF a.meta = "json" THEN <<"meta_json">> ELSE <<>>)
    \o (IF a.metric THEN <<"metric">> ELSE <<>>)

\* mutant: the not-found message printed whether or not --exists was given
QueryFailureAlwaysReports(a) == <<"not_found">>

\* what the except branch of query prints, lines 202-203
QueryFailureOutputs(a) == IF a.exists THEN <<"not_found">> ELSE <<>>

\* lines 196-221
query(p) ==
    /\ Handler(p, "query")
    /\ ops' = [ops EXCEPT ![p] =
                  Append(@, <<"get_object", as_object_id(args[p].object_id[1])>>)]
    /\ \/ /\ out' = [out EXCEPT ![p] = @ \o <<"value">> \o QueryOutputs(args[p])]
          /\ Return(p)
          /\ UNCHANGED exc
       \/ /\ out' = [out EXCEPT ![p] = @ \o QueryFailureOutputs(args[p])]
          /\ Propagate(p, Wrapped("fetching", args[p].object_id[1]))
    /\ UNCHANGED HandlerFrame

\* lines 224-231
delete_obj(p) ==
    /\ Handler(p, "del")
    /\ ops' = [ops EXCEPT ![p] =
                  Append(@, <<"delete", as_object_id(args[p].object_id[1])>>)]
    /\ \/ /\ out' = [out EXCEPT ![p] = Append(@, "deleted")]
          /\ Return(p)
          /\ UNCHANGED exc
       \/ /\ Propagate(p, Wrapped("deleting", args[p].object_id[1]))
          /\ UNCHANGED out
    /\ UNCHANGED HandlerFrame

\* the exception that leaves status() when reading client.status raises
StatusFailure == Raised("StoreError", "status", <<>>)

\* lines 234-242
status(p) ==
    /\ Handler(p, "stat")
    /\ ops' = [ops EXCEPT ![p] = Append(@, <<"status">>)]
    /\ \/ /\ out' = [out EXCEPT ![p] =
                        @ \o (IF args[p].properties
                              THEN <<"InstanceStatus", "properties">>
                              ELSE <<"stat">>)]
          /\ Return(p)
          /\ UNCHANGED exc
       \/ /\ Propagate(p, StatusFailure)
          /\ UNCHANGED out
    /\ UNCHANGED HandlerFrame

\* lines 245-262
put_object(p) ==
    /\ Handler(p, "put")
    /\ LET a       == args[p]
           subject == IF a.value # None THEN a.value[1] ELSE a.csv[1]
       IN  \/ \* pd.read_csv(args.file) raises
              /\ a.value = None
              /\ Propagate(p, Wrapped("putting", subject))
              /\ UNCHANGED <<ops, out>>
           \/ /\ ops' = [ops EXCEPT ![p] = Append(@, <<"put">>)]
              /\ \/ /\ out' = [out EXCEPT ![p] = Append(@, "put")]
                    /\ Return(p)
                    /\ UNCHANGED exc
                 \/ /\ Propagate(p, Wrapped("putting", subject))
                    /\ UNCHANGED out
    /\ UNCHANGED HandlerFrame

\* --------------------------------------------------------- specifications
Start(F, E) ==
    /\ fileExists \in E
    /\ file \in (IF fileExists THEN F ELSE {<<>>})
    /\ pc = [p \in Procs |-> "start"]
    /\ args = [p \in Procs |-> NoArgs]
    /\ runs = [p \in Procs |-> 0]
    /\ sockets = [p \in Procs |-> <<>>]
    /\ connects = [p \in Procs |-> <<>>]
    /\ sessions = [p \in Procs |-> 0]
    /\ handlers = [p \in Procs |-> <<>>]
    /\ ops = [p \in Procs |-> <<>>]
    /\ out = [p \in Procs |-> <<>>]
    /\ err = [p \in Procs |-> <<>>]
    /\ exitCode = [p \in Procs |-> 0]
    /\ exc = [p \in Procs |-> NoExc]
    /\ fileLog = <<>>

\* files cut short: the first n lines of a four-line file, n < 4
ShortFiles ==
    { writelines(SubSeq(readlines(f), 1, n)) : f \in InitFiles, n \in 0..3 }

\* the files config leaves when all four options are given
SavedValues ==
    { <<>>, <<"h">> } \X { <<>>, <<"h">> } \X { <<>>, <<"7">>, <<"h">> }
        \X { <<>>, <<"h", COLON, "7">> }
SavedFiles == { FileOf(v) : v \in SavedValues }

ConfigInit == Start(InitFiles, {TRUE})

ConfigNext ==
    \/ parse_args(1, ConfigArgs(Values))
    \/ main_config(1)

\* one operator running config invocations one after the other,
\* starting from a four-line file
SpecConfig == ConfigInit /\ [][ConfigNext]_vars

\* the same, starting from a file that is missing or has fewer than four lines
ShortInit == Start(ShortFiles, BOOLEAN)
SpecShort == ShortInit /\ [][ConfigNext]_vars

\* config invocations running at the same time on one file
RaceValues == { <<"7">> }
RaceArgs == { a \in ConfigArgs(RaceValues) : Cardinality({i \in 1..4 : PatchOf(a)[i] # None}) <= 1 }

RaceNext ==
    \E p \in Procs :
        \/ runs[p] = 0 /\ parse_args(p, RaceArgs)
        \/ config_read(p)
        \/ config_open(p)
        \/ config_write(p)

\* the four-line files whose fields all hold the same value
RaceFiles == { FileOf([i \in 1..4 |-> v]) : v \in InitValues }
RaceInit == Start(RaceFiles, {TRUE})

SpecRace == RaceInit /\ [][RaceNext]_vars

\* one invocation of main() with any command line
MainInit == Start(SavedFiles \cup ShortFiles, BOOLEAN)

MainNext ==
    \/ runs[1] = 0 /\ parse_args(1, MainArgv \cup WithFlags(ConfigArgs(Values)))
    \/ main_no_cmd(1)
    \/ main_config(1)
    \/ connect_vineyard(1)
    \/ connect_via_config_file(1)
    \/ list_obj(1)
    \/ query(1)
    \/ delete_obj(1)
    \/ status(1)
    \/ put_object(1)

Spec == MainInit /\ [][MainNext]_vars

\* ================================================================= claims
\* main() of invocation p has ended in this step by running config()
ConfigEnds(p) == pc[p] = "main" /\ args[p].cmd = "config" /\ pc'[p] = "done"

\* the value load returns for field i, with the port compared as a number
Loaded(c, i) ==
    CASE i = 1 -> Some(c.ipc_socket)
      [] i = 2 -> Some(c.rpc_host)
      [] i = 3 -> c.rpc_port
      [] i = 4 -> Some(c.rpc_endpoint)

Expected(i, value) == IF i = 3 THEN int(value) ELSE Some(value)

\* C2: after config() has saved a patch to a four-line file, load returns
\* the patched value for every field of the patch and, for every other
\* field, the value it returned before the save.
C2_RoundTrip ==
    [][\A p \in Procs :
        ConfigEnds(p) /\ exc'[p] = NoExc =>
          LET before == load(file, fileExists)
              after  == load(file', fileExists')
              patch  == PatchOf(args[p])
          IN  /\ after.ok
              /\ \A i \in 1..4 :
                    Loaded(after, i) = IF patch[i] # None THEN Expected(i, patch[i][1])
                                       ELSE Loaded(before, i)]_vars

\* the rpc_endpoint case alone: a saved "host:port" is loaded back as saved
C2_EndpointRoundTrip ==
    [][\A p \in Procs :
        ConfigEnds(p) /\ args[p].rpc_endpoint_value = Some(<<"h", COLON, "7">>)
          /\ args[p].ipc_socket_value = None /\ args[p].rpc_host_value = None
          /\ args[p].rpc_port_value = None
          => load(file', fileExists').rpc_endpoint = <<"h", COLON, "7">>]_vars

\* line i of the file begins with key i and ':'; lines 1-3 end with a line
\* break and line 4 does not
WellShaped(content) ==
    LET lines == readlines(content) IN
    /\ Len(lines) >= 4
    /\ \A i \in 1..4 :
          /\ Len(lines[i]) >= 2
          /\ lines[i][1] = Keys[i]
          /\ lines[i][2] = COLON
    /\ \A i \in 1..3 : lines[i][Len(lines[i])] = NL
    /\ lines[4][Len(lines[4])] # NL

\* C8: from a four-line file, after any sequence of config invocations with
\* any values, the file keeps its shape.
C8_ShapeKept == WellShaped(file)

\* C10: a config invocation that fails leaves the file as it was.
C10_FailureKeepsFile ==
    [][\A p \in Procs :
        ConfigEnds(p) /\ exc'[p] # NoExc => file' = file]_vars

\* ---------------------------------------------------- connection (main)
\* invocation p has gone through the connection step of main(), line 290
Resolving(p) ==
    /\ pc[p] \in {"handler", "done"}
    /\ args[p].cmd \in Subcommands \ {"config"}

Called(p, call) == \E i \in 1..Len(connects[p]) : connects[p][i] = call

\* which source the vineyard.connect calls and the file reads came from
UsedIpcFlag(p) ==
    args[p].ipc_socket # None /\ Called(p, <<Str(args[p].ipc_socket[1])>>)
UsedEndpointFlag(p) ==
    /\ args[p].rpc_endpoint # None
    /\ Called(p, StrArgs(split(args[p].rpc_endpoint[1], COLON)))
UsedHostPortFlags(p) ==
    /\ args[p].rpc_host # None
    /\ args[p].rpc_port # None
    /\ Called(p, <<Str(args[p].rpc_host[1]), Num(args[p].rpc_port[1])>>)
UsedConfigFile(p) == \E i \in 1..Len(fileLog) : fileLog[i] = <<p, "read">>

PathsTaken(p) ==
    (IF UsedIpcFlag(p) THEN {"ipc"} ELSE {})
    \cup (IF UsedEndpointFlag(p) THEN {"endpoint"} ELSE {})
    \cup (IF UsedHostPortFlags(p) THEN {"hostport"} ELSE {})
    \cup (IF UsedConfigFile(p) THEN {"config"} ELSE {})

\* C1: connect_vineyard takes exactly one path, in the order IPC socket,
\* RPC endpoint, RPC host and port (both given), config file.
C1_Precedence ==
    \A p \in Procs :
        Resolving(p) =>
            PathsTaken(p) =
                IF args[p].ipc_socket # None THEN {"ipc"}
                ELSE IF args[p].rpc_endpoint # None THEN {"endpoint"}
                ELSE IF args[p].rpc_host # None /\ args[p].rpc_port # None THEN {"hostport"}
                ELSE {"config"}

\* all four flags given, and the IPC socket was the one used
C1_Witness ==
    \E p \in Procs :
        /\ Resolving(p)
        /\ args[p].ipc_socket # None /\ args[p].rpc_endpoint # None
        /\ args[p].rpc_host # None /\ args[p].rpc_port # None
        /\ sessions[p] = 2
        /\ PathsTaken(p) = {"ipc"}

C3_WitnessUnknown ==
    \E p \in Procs :
        pc[p] = "done" /\ args[p].cmd = "bogus" /\ exitCode[p] = 2

\* the connection step has returned a client
Connected(p) == connects[p] # <<>> /\ sessions[p] = Len(connects[p])

HandlerRule(p) ==
    /\ Len(handlers[p]) <= 1
    /\ args[p].cmd = "config" => sessions[p] = 0 /\ connects[p] = <<>>
    /\ (handlers[p] # <<>> /\ args[p].cmd # "config") => Connected(p)
    /\ (pc[p] = "done" /\ Resolving(p) /\ Connected(p)) => handlers[p] = <<args[p].cmd>>

\* C4 as stated: at most one session in every invocation.
C4_AtMostOneSession ==    \A p \in Procs :
     sessions[p] <= 1 /\ HandlerRule(p)

\* the first connection was made on an IPC socket (flag or config file)
ViaIpc(p) == connects[p] # <<>> /\ Len(connects[p][1]) = 1

\* C4 as amended: one session, or two when the connection goes through an
\* IPC socket; config opens none; one handler once the connection is made.
C4_SessionsBounded ==
    \A p \in Procs :
        /\ sessions[p] <= (IF ViaIpc(p) THEN 2 ELSE 1)
        /\ Len(connects[p]) <= (IF ViaIpc(p) THEN 2 ELSE 1)
        /\ HandlerRule(p)

\* a handler ran after two sessions opened through a saved IPC socket
C4_Witness ==
    \E p \in Procs :
        /\ pc[p] = "done"
        /\ UsedConfigFile(p)
        /\ ViaIpc(p)
        /\ sessions[p] = 2
        /\ handlers[p] = <<"stat">>

\* ------------------------------------------------------------- handlers
StoreOps == {"listing", "fetching", "deleting", "putting", "status"}

\* C5: a failure of the store operation of a handler leaves the handler
\* only wrapped in a message naming the operation; nothing is retried.
C5_FailuresWrapped ==
    \A p \in Procs :
        /\ Len(ops[p]) <= 1
        /\ (pc[p] = "done" /\ handlers[p] # <<>> /\ args[p].cmd # "config"
              /\ exc[p] # NoExc)
            => exc[p].kind = "Exception" /\ exc[p].op \in StoreOps

\* C6: query on a failed fetch prints the not-found message only with
\* --exists, raises the wrapped failure either way and makes no later
\* output; on success with --exists it prints 'exists' and raises nothing.
C6_QueryExists ==
    \A p \in Procs :
        (pc[p] = "done" /\ handlers[p] = <<"query">>) =>
            LET a == args[p] IN
            IF exc[p] # NoExc
            THEN /\ exc[p] = [kind |-> "Exception", op |-> "fetching",
                              subject |-> a.object_id[1]]
                 /\ out[p] = (IF a.exists THEN <<"not_found">> ELSE <<>>)
                 /\ exitCode[p] # 0
            ELSE /\ out[p][1] = "value"
                 /\ a.exists => /\ \E i \in 1..Len(out[p]) : out[p][i] = "exists"
                                /\ \A i \in 1..Len(out[p]) : out[p][i] # "not_found"
                 /\ exitCode[p] = 0

\* a failed fetch with --exists and every output option given
C6_Witness ==
    \E p \in Procs :
        /\ pc[p] = "done" /\ handlers[p] = <<"query">>
        /\ args[p].exists /\ args[p].stdout /\ args[p].output_file
        /\ args[p].meta = "json" /\ args[p].metric
        /\ exc[p] # NoExc
        /\ out[p] = <<"not_found">>

\* --------------------------------------------------- config-file resolution
\* C7: with no usable flag, the saved values v are used as saved: the
\* socket first, else the endpoint host:port, else host and integer port;
\* a port that is no integer is absent; nothing usable ends in help.
C7_SavedValuesUsed ==
    \A p \in Procs, v \in SavedValues :
        (Resolving(p) /\ UsedConfigFile(p) /\ fileExists /\ file = FileOf(v)) =>
            LET port == int(v[3]) IN
            /\ exc[p].op # "config file"
            /\ IF v[1] # <<>> THEN connects[p][1] = <<Str(v[1])>>
               ELSE IF v[4] # <<>>
                    THEN connects[p] = <<StrArgs(split(v[4], COLON))>>
               ELSE IF v[2] # <<>> /\ port # None
                    THEN connects[p] = << <<Str(v[2]), Num(port[1])>> >>
               ELSE /\ connects[p] = <<>>
                    /\ err[p] = <<"help">>
                    /\ exitCode[p] # 0

\* ----------------------------------------------------------------- race
Fields(a) == {i \in 1..4 : PatchOf(a)[i] # None}

\* C9: when two config invocations patching different fields interleave as
\* read A, read B, write A, write B, the file is what B wrote from the
\* lines it read, and the lines A patched are back as they were read.
C9_LostUpdate ==
    \A A, B \in Procs :
        (/\ A # B
         /\ fileLog = << <<A, "read">>, <<B, "read">>, <<A, "open_w">>,
                         <<A, "write">>, <<B, "open_w">>, <<B, "write">> >>
         /\ Fields(args[A]) # {} /\ Fields(args[B]) # {}
         /\ Fields(args[A]) \cap Fields(args[B]) = {})
        => /\ sockets[A] = sockets[B]
           /\ LET lines == readlines(file) IN
              /\ Len(lines) = 4
              /\ \A i \in 1..4 :
                    lines[i] = IF i \in Fields(args[B])
                               THEN Line(i, PatchOf(args[B])[i][1])
                               ELSE sockets[B][i]
              /\ \A i \in Fields(args[A]) :
                    lines[i] = sockets[A][i] /\ lines[i] # Line(i, PatchOf(args[A])[i][1])

\* the interleaving has happened, both invocations returned normally
C9_Witness ==
    /\ fileLog = << <<1, "read">>, <<2, "read">>, <<1, "open_w">>,
                    <<1, "write">>, <<2, "open_w">>, <<2, "write">> >>
    /\ Fields(args[1]) = {1} /\ Fields(args[2]) = {4}
    /\ pc[1] = "done" /\ pc[2] = "done"
    /\ exc[1] = NoExc /\ exc[2] = NoExc

====
